---------------------------- MODULE Spec2Model ----------------------------
(***************************************************************************)
(* A model of the signal_processor DSP kernel (src/src/signal_processor.cpp)*)
(*                                                                         *)
(* The library keeps no state of its own.  The state of the model is the   *)
(* caller's view of one synchronous call: which operation was invoked,     *)
(* with which arguments, and what came back (a value, a thrown exception   *)
(* or a crash).  Every operation is an operator translated from its C++    *)
(* body and one action that applies it to arguments drawn from small sets. *)
(*                                                                         *)
(* double values are modelled in fixed point: the integer v stands for the *)
(* real v / ONE.  Values that can leave the finite range (a division by a  *)
(* zero sum, 0/0) are carried as records with a class field.               *)
(***************************************************************************)
EXTENDS Integers, Sequences, FiniteSets

VARIABLES
    pc,      \* the sequential caller: "idle" or "returned"
    call,    \* the sequential caller's call: operation, arguments, result
    th,      \* the threads that run compute_fft statement by statement
    pipe,    \* the caller that chains generate, transform and peak search
    hist,    \* the calls a caller has made one after the other
    gen,     \* the threads that run generate_test_signal draw by draw
    run      \* one call followed through its loops, iteration by iteration

vars == <<pc, call, th, pipe, hist, gen, run>>

---------------------------------------------------------------------------
(* Bounds of the model                                                     *)

MaxLen == 5

MaxSnrLen == 2

MaxBins == 3

MaxTaps == 5

MaxRate == 3

MaxDurQ == 4

---------------------------------------------------------------------------
(* Numbers                                                                 *)

\* the fixed-point unit: the double 1.0
ONE == 10000

\* M_PI in fixed point
PiFix == (31416 * ONE) \div 10000

\* durations are given in quarters of a second
DurDen == 4

\* cutoff frequencies are given in quarters
CutDen == 4

Abs(x) == IF x < 0 THEN 0 - x ELSE x

Sgn(x) == IF x < 0 THEN 0 - 1 ELSE IF x > 0 THEN 1 ELSE 0

\* integer division rounding toward zero, as C++ does (b # 0)
TruncDiv(a, b) == Sgn(a) * Sgn(b) * (Abs(a) \div Abs(b))

\* a conversion that rounds to the nearest integer instead
StaticCastInt_Round(num, den) ==
    Sgn(num) * ((2 * Abs(num) + den) \div (2 * den))

\* static_cast<int>(x) of the double num / den (den > 0): truncation toward zero
StaticCastInt(num, den) == TruncDiv(num, den)

\* floor(num * scale / den) for num >= 0, den > 0 and scale a power of ten,
\* by long division, digit by digit, so that num * scale is never formed
RECURSIVE LongDiv(_, _, _, _)
LongDiv(r, den, scale, acc) ==
    IF scale = 1 THEN acc
    ELSE LongDiv((10 * r) % den, den, scale \div 10,
                 10 * acc + (10 * r) \div den)

ScaleDiv(num, den, scale) == LongDiv(num % den, den, scale, num \div den)

\* std::sin(2*pi*p/q), q # 0, in fixed point.  Bhaskara's rational
\* approximation on each half wave: exact at 0, 1/12, 1/4 of a turn, odd
\* (sin(-x) = -sin(x)) and symmetric about the quarter turn, as std::sin.
SinHalf(a, b) == ScaleDiv(16 * a * (b - a), 5 * b * b - 4 * a * (b - a), ONE)

SinTurn(p, q) ==
    LET pp == IF q < 0 THEN 0 - p ELSE p
        qq == Abs(q)
        r  == pp % qq
    IN  IF 2 * r <= qq THEN SinHalf(2 * r, qq)
                       ELSE 0 - SinHalf(2 * r - qq, qq)

\* std::cos(2*pi*p/q) = sin(2*pi*(p/q + 1/4))
CosTurn(p, q) == SinTurn(4 * p + q, 4 * q)

\* product of two fixed-point numbers
FixMul(a, b) == TruncDiv(a * b, ONE)

\* s[lo] + ... + s[hi], summed by halves to keep the recursion shallow
RECURSIVE SumRange(_, _, _)
SumRange(s, lo, hi) ==
    IF lo > hi THEN 0
    ELSE IF lo = hi THEN s[lo]
    ELSE LET mid == (lo + hi) \div 2
         IN  SumRange(s, lo, mid) + SumRange(s, mid + 1, hi)

SumSeq(s) == SumRange(s, 1, Len(s))

\* all sequences over S of length 0..n
SeqsUpTo(S, n) == UNION {[1..k -> S] : k \in 0..n}

---------------------------------------------------------------------------
(* generate_test_signal                                                    *)

Freqs == {1, 3}

SampleRates == (0 - 2)..MaxRate

DurQs == (0 - 2)..MaxDurQ

NoiseAmps == {0, ONE}

\* what the random source can yield for one standard normal draw
ZVals == {0 - ONE, ONE}

\* a draw that ignores the standard deviation
NormalDist_Unscaled(mean, stddev, z) == z + mean

\* std::normal_distribution<double>(mean, stddev)(gen): z * stddev + mean
NormalDist(mean, stddev, z) == FixMul(z, stddev) + mean

\* int num_samples = static_cast<int>(sample_rate * duration)
NumSamples(sr, dq) == StaticCastInt(sr * dq, DurDen)

\* the draws one call makes: one per loop iteration
NumDraws(sr, dq) == IF NumSamples(sr, dq) < 0 THEN 0 ELSE NumSamples(sr, dq)

generate_test_signal(f, sr, dq, amp, zs) ==
    LET num_samples == NumSamples(sr, dq)
    IN  IF num_samples < 0
        THEN \* std::vector<double>(n) with n converted to a huge size_t
             [status |-> "throw", err |-> "length_error", signal |-> <<>>]
        ELSE [status |-> "ok", err |-> "none",
              signal |-> [i \in 1..num_samples |->
                             SinTurn(f * (i - 1), sr)
                               + NormalDist(0, amp, zs[i])]]

---------------------------------------------------------------------------
(* double values that can leave the finite range                           *)

Fin(v) == [cls |-> "fin", v |-> v]

NaN == [cls |-> "nan", v |-> 0]

Inf(sign) == [cls |-> "inf", v |-> sign]

\* a / b of two finite doubles (IEEE: x/0 is an infinity, 0/0 is NaN)
FDiv(a, b) ==
    IF b = 0 THEN (IF a = 0 THEN NaN ELSE Inf(Sgn(a)))
             ELSE Fin(Sgn(a) * Sgn(b) * ScaleDiv(Abs(a), Abs(b), ONE))

\* x * c of a finite double x and a double c
FMul(x, c) ==
    CASE c.cls = "fin" -> Fin(FixMul(x, c.v))
      [] c.cls = "nan" -> NaN
      [] OTHER         -> IF x = 0 THEN NaN ELSE Inf(Sgn(x) * c.v)

\* a + b of two doubles
FAdd(a, b) ==
    CASE a.cls = "nan" \/ b.cls = "nan" -> NaN
      [] a.cls = "inf" /\ b.cls = "inf" -> IF a.v = b.v THEN a ELSE NaN
      [] a.cls = "inf"                  -> a
      [] b.cls = "inf"                  -> b
      [] OTHER                          -> Fin(a.v + b.v)

---------------------------------------------------------------------------
(* apply_lowpass_filter                                                    *)

SampleVals == {0 - ONE, 0, ONE}

Signals == SeqsUpTo(SampleVals, MaxLen)

\* cutoff_freq = cn / CutDen: -0.25, 0, 0.25, 0.5, 0.75, 1, 1.25
CutNums == {0 - 1, 0, 1, 2, 3, 4, 5}

TapCounts == (0 - 1)..MaxTaps

\* the Hamming window 0.54 - 0.46 * cos(2*pi*i / (num_taps - 1))
HammingWindow(i, num_taps) ==
    (54 * ONE) \div 100 - FixMul((46 * ONE) \div 100, CosTurn(i, num_taps - 1))

\* a loop body without the centre case: the window branch is taken for
\* every tap, and the centre tap, whose sinc is 0/0, is left at 0
DesignTap_NoCentreCase(i, cn, num_taps) ==
    LET center == num_taps \div 2
        offset == i - center
    IN  [coeff |-> IF offset = 0 THEN 0
                   ELSE FixMul(TruncDiv(SinTurn(cn * offset, CutDen) * ONE,
                                        PiFix * offset),
                               HammingWindow(i, num_taps)),
         windowed |-> TRUE]

\* one pass of the design loop for tap i (from 0): the coefficient it
\* stores, and whether it evaluated the window expression
DesignTap(i, cn, num_taps) ==
    LET center == num_taps \div 2
        offset == i - center
    IN  IF offset = 0
        THEN [coeff |-> TruncDiv(2 * cn * ONE, CutDen), windowed |-> FALSE]
        ELSE LET sinc_value == TruncDiv(SinTurn(cn * offset, CutDen) * ONE,
                                        PiFix * offset)
             IN  [coeff |-> FixMul(sinc_value, HammingWindow(i, num_taps)),
                  windowed |-> TRUE]

\* filter_coeffs[i] before normalization (i counts from 0, as in the code)
DesignCoeff(i, cn, num_taps) == DesignTap(i, cn, num_taps).coeff

\* the taps for which the window expression is evaluated
DesignWindowed(cn, num_taps) ==
    {i \in 0..(num_taps - 1) : DesignTap(i, cn, num_taps).windowed}

DesignCoeffs(cn, num_taps) ==
    [k \in 1..num_taps |-> DesignCoeff(k - 1, cn, num_taps)]

\* a normalization by the number of taps instead of the coefficient sum
NormalizeCoeffs_ByCount(raw) ==
    [k \in 1..Len(raw) |-> FDiv(raw[k], Len(raw) * ONE)]

\* coeff /= sum for every coefficient
NormalizeCoeffs(raw) == [k \in 1..Len(raw) |-> FDiv(raw[k], SumSeq(raw))]

\* double sum = 0.0, and no element of the input read yet
MacStart == [sum |-> Fin(0), reads |-> {}]

\* a causal multiply-accumulate loop: tap j weighs the sample j places back
RECURSIVE Mac_Causal(_, _, _, _, _)
Mac_Causal(input, coeffs, i, j, acc) ==
    IF j >= Len(coeffs) THEN acc
    ELSE LET input_idx == i - j
         IN  Mac_Causal(input, coeffs, i, j + 1,
                 IF input_idx >= 0 /\ input_idx < Len(input)
                 THEN [sum |-> FAdd(acc.sum, FMul(input[input_idx + 1],
                                                  coeffs[j + 1])),
                       reads |-> acc.reads \cup {input_idx}]
                 ELSE acc)

\* a loop that handles the edges by repeating the border sample
RECURSIVE Mac_Clamped(_, _, _, _, _)
Mac_Clamped(input, coeffs, i, j, acc) ==
    IF j >= Len(coeffs) \/ Len(input) = 0 THEN acc
    ELSE LET input_idx == i - (Len(coeffs) \div 2) + j
             clamped   == IF input_idx < 0 THEN 0
                          ELSE IF input_idx >= Len(input) THEN Len(input) - 1
                          ELSE input_idx
         IN  Mac_Clamped(input, coeffs, i, j + 1,
                 [sum |-> FAdd(acc.sum, FMul(input[clamped + 1],
                                             coeffs[j + 1])),
                  reads |-> acc.reads \cup {clamped}])

\* the multiply-accumulate loop over j = from .. num_taps-1 for output index i
\* (i and j count from 0), started with acc: the running sum and the input
\* indices read so far
RECURSIVE Mac(_, _, _, _, _)
Mac(input, coeffs, i, j, acc) ==
    IF j >= Len(coeffs) THEN acc
    ELSE LET input_idx == i - (Len(coeffs) \div 2) + j
         IN  Mac(input, coeffs, i, j + 1,
                 IF input_idx >= 0 /\ input_idx < Len(input)
                 THEN [sum |-> FAdd(acc.sum, FMul(input[input_idx + 1],
                                                  coeffs[j + 1])),
                       reads |-> acc.reads \cup {input_idx}]
                 ELSE acc)

\* a convolution that keeps only the fully overlapping positions
Convolve_ValidOnly(input, coeffs) ==
    [n \in 1..(IF Len(input) >= Len(coeffs)
               THEN Len(input) - Len(coeffs) + 1 ELSE 0) |->
        Mac(input, coeffs, n - 1 + Len(coeffs) \div 2, 0, MacStart).sum]

\* std::vector<double> output(input_size, 0.0), then output[i] = sum
Convolve(input, coeffs) ==
    [n \in 1..Len(input) |-> Mac(input, coeffs, n - 1, 0, MacStart).sum]

\* the indices at which the convolution reads input[...]
ConvolveReads(input, coeffs) ==
    UNION {Mac(input, coeffs, n - 1, 0, MacStart).reads : n \in 1..Len(input)}

apply_lowpass_filter(input, cn, num_taps) ==
    IF num_taps < 0
    THEN \* std::vector<double> filter_coeffs(num_taps): a huge size_t
         [status |-> "throw", err |-> "length_error",
          raw |-> <<>>, coeffs |-> <<>>, output |-> <<>>, reads |-> {},
          windowed |-> {}]
    ELSE LET raw    == DesignCoeffs(cn, num_taps)
             coeffs == NormalizeCoeffs(raw)
         IN  [status |-> "ok", err |-> "none",
              raw |-> raw, coeffs |-> coeffs,
              output |-> Convolve(input, coeffs),
              reads |-> ConvolveReads(input, coeffs),
              windowed |-> DesignWindowed(cn, num_taps)]

---------------------------------------------------------------------------
(* compute_fft                                                             *)

Complex(re, im) == [re |-> re, im |-> im]

\* fftw_plan_dft_r2c_1d(N, in, out, FFTW_ESTIMATE): FFTW makes no plan for a
\* size that is not positive and returns NULL
FftwPlan(N) == IF N > 0 THEN "plan" ELSE "NULL"

\* bin k (from 0) of the unnormalized real-to-complex transform FFTW writes
\* into out: sum over n of in[n] * exp(-2*pi*i*n*k/N)
FftwBin(in, k) ==
    LET N == Len(in)
    IN  Complex(
          SumSeq([n \in 1..N |-> FixMul(in[n], CosTurn((n - 1) * k, N))]),
          0 - SumSeq([n \in 1..N |-> FixMul(in[n], SinTurn((n - 1) * k, N))]))

\* the cosines and sines of the N-th parts of a turn, which a plan for size
\* N holds: cos and sin of 2*pi*p/N depend on p modulo N only
FftwTwiddle(N) ==
    [r \in 0..(N - 1) |-> Complex(CosTurn(r, N), SinTurn(r, N))]

\* TRUE; comparing the table with itself computes all of its entries, once
Built(w) == w = w

\* bin k as FftwBin computes it, with the cosines and sines read from w
FftwBinWith(in, k, w) ==
    LET N == Len(in)
    IN  Complex(
          SumSeq([n \in 1..N |-> FixMul(in[n], w[((n - 1) * k) % N].re)]),
          0 - SumSeq([n \in 1..N |-> FixMul(in[n], w[((n - 1) * k) % N].im)]))

\* a result one bin short: the Nyquist bin dropped
ResultSize_NoNyquist(N) == N \div 2

\* std::vector<std::complex<double>> result(N / 2 + 1)
ResultSize(N) == N \div 2 + 1

\* fftw_alloc_real(N) and fftw_alloc_complex(N): the elements of in and out
BufferSize(N) == N

\* the indices of in that the copy loop writes: i = 0 .. N - 1
CopyWrites(N) == 0..(N - 1)

\* the indices of out that the result loop reads: i = 0 .. N / 2
ResultReads(N) == 0..(ResultSize(N) - 1)

\* the indices of out that an executed r2c plan of size N writes
ExecuteWrites(N) == 0..(N \div 2)

\* what a read past the end of a buffer can deliver
GarbageBins == {Complex(0, 0), Complex(ONE, 0 - ONE)}

\* the ways the build can behave once fftw_execute is handed a NULL plan:
\* the process dies there, or execution runs on and out[0] is read from a
\* buffer of zero elements
UbOutcomes ==
    {[kind |-> "crash", bin |-> Complex(0, 0)]}
      \cup {[kind |-> "run_on", bin |-> g] : g \in GarbageBins}

\* a copy that fills in from the last sample to the first
CopyIn_Reversed(input) ==
    [i \in 1..Len(input) |-> input[Len(input) + 1 - i]]

\* for (int i = 0; i < N; ++i) in[i] = input[i]
CopyIn(input) == [i \in 1..Len(input) |-> input[i]]

compute_fft(input, ub) ==
    LET N    == Len(input)
        in   == CopyIn(input)
        plan == FftwPlan(N)
    IN  IF plan = "NULL"
        THEN \* fftw_execute(NULL): undefined behaviour
             IF ub.kind = "crash"
             THEN [status |-> "crash", err |-> "null_plan", spectrum |-> <<>>]
             ELSE [status |-> "ok", err |-> "none",
                   spectrum |-> [i \in 1..ResultSize(N) |-> ub.bin]]
        ELSE LET w == FftwTwiddle(N)
             IN  [status |-> "ok", err |-> "none",
                  spectrum |-> IF Built(w)
                               THEN [i \in 1..ResultSize(N) |->
                                        FftwBinWith(in, i - 1, w)]
                               ELSE <<>>]

---------------------------------------------------------------------------
(* calculate_snr                                                           *)

\* The square of a sample or of a bin value exceeds 32 bits, so squares and
\* their sums are kept exactly as three digits <<high, middle, low>> to the
\* base ONE, most significant first.
WideSq(a) ==
    LET a1 == Abs(a) \div ONE
        a0 == Abs(a) % ONE
        p0 == a0 * a0
        p1 == 2 * a1 * a0 + p0 \div ONE
    IN  <<a1 * a1 + p1 \div ONE, p1 % ONE, p0 % ONE>>

WideAdd(x, y) ==
    LET l == x[3] + y[3]
        m == x[2] + y[2] + l \div ONE
    IN  <<x[1] + y[1] + m \div ONE, m % ONE, l % ONE>>

WideLess(x, y) ==
    \/ x[1] < y[1]
    \/ x[1] = y[1] /\ x[2] < y[2]
    \/ x[1] = y[1] /\ x[2] = y[2] /\ x[3] < y[3]

\* the value 0.0 of a power or a magnitude
WideZero == <<0, 0, 0>>

\* a non-negative integer in three digits
Wide(n) == <<n \div (ONE * ONE), (n \div ONE) % ONE, n % ONE>>

\* the sum of the first n squares of a sequence: sum += x * x in index order
RECURSIVE WideSumSq(_, _)
WideSumSq(s, n) ==
    IF n = 0 THEN WideZero ELSE WideAdd(WideSumSq(s, n - 1), WideSq(s[n]))

\* samples of calculate_snr: those of the other operations, and 11.0 with
\* 11.0001, a reference and a copy of it that is off by the resolution
SnrVals == SampleVals \cup {11 * ONE, 11 * ONE + 1}

SnrSignals == SeqsUpTo(SnrVals, MaxSnrLen)

\* the value returned when the noise power is zero
SnrSentinel == 100

\* 10.0 * std::log10(signal_power / noise_power), kept as the ratio it is the
\* logarithm of; log10(0) is minus infinity
Decibels(signal_power, noise_power) ==
    IF signal_power = WideZero
    THEN [kind |-> "minus_inf", num |-> Wide(0), den |-> Wide(1)]
    ELSE [kind |-> "10log10", num |-> signal_power, den |-> noise_power]

SignalPower(signal) == WideSumSq(signal, Len(signal))

NoisePower(signal, noisy) ==
    WideSumSq([i \in 1..Len(signal) |-> noisy[i] - signal[i]], Len(signal))

MinLen(a, b) == IF Len(a) < Len(b) THEN Len(a) ELSE Len(b)

\* a body that compares the sizes only after the two power loops
calculate_snr_LateCheck(signal, noisy) ==
    LET n            == MinLen(signal, noisy)
        signal_power == SignalPower(SubSeq(signal, 1, n))
        noise_power  == NoisePower(SubSeq(signal, 1, n), SubSeq(noisy, 1, n))
    IN  IF Len(signal) # Len(noisy)
        THEN [status |-> "throw", err |-> "invalid_argument",
              value |-> [kind |-> "none", num |-> Wide(0), den |-> Wide(1)],
              path |-> <<"signal_power", "noise_power", "size_check">>]
        ELSE IF noise_power = WideZero
             THEN [status |-> "ok", err |-> "none",
                   value |-> [kind |-> "const", num |-> Wide(SnrSentinel),
                             den |-> Wide(1)],
                   path |-> <<"signal_power", "noise_power", "size_check",
                              "zero_check">>]
             ELSE [status |-> "ok", err |-> "none",
                   value |-> Decibels(signal_power, noise_power),
                   path |-> <<"signal_power", "noise_power", "size_check",
                              "zero_check", "divide", "log10">>]

\* a body without the test for a zero noise power
calculate_snr_NoZeroCheck(signal, noisy) ==
    IF Len(signal) # Len(noisy)
    THEN [status |-> "throw", err |-> "invalid_argument",
          value |-> [kind |-> "none", num |-> Wide(0), den |-> Wide(1)],
          path |-> <<"size_check">>]
    ELSE [status |-> "ok", err |-> "none",
          value |-> Decibels(SignalPower(signal), NoisePower(signal, noisy)),
          path |-> <<"size_check", "signal_power", "noise_power",
                     "divide", "log10">>]

\* path: the steps of the body the call went through, in order
calculate_snr(signal, noisy) ==
    IF Len(signal) # Len(noisy)
    THEN [status |-> "throw", err |-> "invalid_argument",
          value |-> [kind |-> "none", num |-> Wide(0), den |-> Wide(1)],
          path |-> <<"size_check">>]
    ELSE LET signal_power == SignalPower(signal)
             noise_power  == NoisePower(signal, noisy)
         IN  IF noise_power = WideZero
             THEN [status |-> "ok", err |-> "none",
                   value |-> [kind |-> "const", num |-> Wide(SnrSentinel),
                             den |-> Wide(1)],
                   path |-> <<"size_check", "signal_power", "noise_power",
                              "zero_check">>]
             ELSE [status |-> "ok", err |-> "none",
                   value |-> Decibels(signal_power, noise_power),
                   path |-> <<"size_check", "signal_power", "noise_power",
                              "zero_check", "divide", "log10">>]

---------------------------------------------------------------------------
(* find_peak_frequency                                                     *)

BinVals == {Complex(0, 0), Complex(1, 0), Complex(3, 4), Complex(5, 0),
            Complex(0, 0 - 5)}

Spectra == SeqsUpTo(BinVals, MaxBins)

PeakRates == {0, 8, 1000}

\* std::abs(z) = sqrt(re^2 + im^2) is compared only with other magnitudes
\* and with 0.0; the square root is strictly increasing, so the squares
\* compare the same way
MagnitudeSq(z) == WideAdd(WideSq(z.re), WideSq(z.im))

\* a loop body that lets a later bin of equal magnitude replace the maximum
PeakStep_LastWins(fft_output, i, best) ==
    LET magnitude == MagnitudeSq(fft_output[i + 1])
    IN  IF ~WideLess(magnitude, best.max_magnitude)
        THEN [max_bin |-> i, max_magnitude |-> magnitude]
        ELSE best

\* the body of the scan loop for bin i (from 0); best holds max_bin and
\* max_magnitude
PeakStep(fft_output, i, best) ==
    LET magnitude == MagnitudeSq(fft_output[i + 1])
    IN  IF WideLess(best.max_magnitude, magnitude)
        THEN [max_bin |-> i, max_magnitude |-> magnitude]
        ELSE best

\* for (size_t i = lo; i < hi; ++i): the bodies run in index order, each on
\* the maximum the one before left.  The range is split in two to keep the
\* recursion shallow, and the first half is finished (its max_bin is looked
\* at) before the second half starts.
RECURSIVE PeakScan(_, _, _, _)
PeakScan(fft_output, lo, hi, best) ==
    IF lo >= hi THEN best
    ELSE IF hi = lo + 1 THEN PeakStep(fft_output, lo, best)
    ELSE LET mid   == (lo + hi) \div 2
             first == PeakScan(fft_output, lo, mid, best)
         IN  IF first.max_bin < mid
             THEN PeakScan(fft_output, mid, hi, first)
             ELSE first

\* int max_bin = 0; double max_magnitude = 0.0
PeakStart == [max_bin |-> 0, max_magnitude |-> WideZero]

\* a divisor that is the number of bins returned
TotalBins_Size(size) == size

\* int total_bins = (fft_output.size() - 1) * 2
TotalBins(size) == (size - 1) * 2

\* a body without the test for an empty spectrum: (0 - 1) * 2 wraps in
\* size_t and converts to the int -2
find_peak_frequency_NoEmptyCheck(fft_output, sample_rate) ==
    LET max_bin    == PeakScan(fft_output, 0, Len(fft_output), PeakStart).max_bin
        total_bins == TotalBins(Len(fft_output))
    IN  [status |-> "ok", max_bin |-> max_bin,
         frequency |-> FDiv(max_bin * sample_rate, total_bins),
         path |-> <<"scan", "divide">>]

find_peak_frequency(fft_output, sample_rate) ==
    IF Len(fft_output) = 0
    THEN [status |-> "ok", max_bin |-> 0, frequency |-> Fin(0),
          path |-> <<"empty_check">>]
    ELSE LET max_bin    == PeakScan(fft_output, 0, Len(fft_output), PeakStart).max_bin
             total_bins == TotalBins(Len(fft_output))
         IN  [status |-> "ok", max_bin |-> max_bin,
              frequency |-> FDiv(max_bin * sample_rate, total_bins),
              path |-> <<"empty_check", "scan", "divide">>]

---------------------------------------------------------------------------
(* The caller                                                              *)

NoCall == [op |-> "none"]

\* the threads of the process
Threads == {1, 2}

\* a thread outside compute_fft: in, out and plan are "none" before they
\* are acquired, then "NULL" or "live", and "freed" once released
IdleThread ==
    [pc |-> "idle", input |-> <<>>, in |-> "none", out |-> "none",
     plan |-> "none", ub |-> "none", err |-> "none", spectrum |-> <<>>]

NoPipe == [stage |-> "start"]

\* a thread outside generate_test_signal
IdleGen ==
    [pc |-> "idle", frequency |-> 0, sample_rate |-> 0, num_samples |-> 0,
     seed |-> 0, signal |-> <<>>]

\* a generator shared by all calls
GeneratorOf_Static(t) == 0

\* std::mt19937 gen(...) is a local of the call: every call has its own
GeneratorOf(t) == t

\* no call of generate_test_signal is running, no generator exists, and no
\* thread has touched one
NoGen ==
    [call |-> [t \in Threads |-> IdleGen],
     rng  |-> [g \in {GeneratorOf(t) : t \in Threads} |->
                 [seed |-> 0, pos |-> 0]],
     used |-> {}]

NoRun == [pc |-> "idle"]

Init ==
    /\ pc = "idle"
    /\ call = NoCall
    /\ th = [t \in Threads |-> IdleThread]
    /\ pipe = NoPipe
    /\ hist = <<>>
    /\ gen = NoGen
    /\ run = NoRun

GenerateTestSignal ==
    /\ pc = "idle"
    /\ \E f \in Freqs, sr \in SampleRates, dq \in DurQs, amp \in NoiseAmps :
         \E zs \in [1..NumDraws(sr, dq) -> ZVals] :
            call' = [op |-> "generate_test_signal",
                     args |-> [frequency |-> f, sample_rate |-> sr,
                               duration_q |-> dq, noise_amplitude |-> amp],
                     draws |-> zs,
                     res |-> generate_test_signal(f, sr, dq, amp, zs)]
    /\ pc' = "returned"
    /\ UNCHANGED <<th, pipe, hist, gen, run>>

ApplyLowpassFilter ==
    /\ pc = "idle"
    /\ \E input \in Signals, cn \in CutNums, num_taps \in TapCounts :
         call' = [op |-> "apply_lowpass_filter",
                  args |-> [input |-> input, cutoff_n |-> cn,
                            num_taps |-> num_taps],
                  res |-> apply_lowpass_filter(input, cn, num_taps)]
    /\ pc' = "returned"
    /\ UNCHANGED <<th, pipe, hist, gen, run>>

ComputeFft ==
    /\ pc = "idle"
    /\ \E input \in Signals, ub \in UbOutcomes :
         call' = [op |-> "compute_fft",
                  args |-> [input |-> input],
                  res |-> compute_fft(input, ub)]
    /\ pc' = "returned"
    /\ UNCHANGED <<th, pipe, hist, gen, run>>

CalculateSnr ==
    /\ pc = "idle"
    /\ \E signal \in SnrSignals, noisy \in SnrSignals :
         call' = [op |-> "calculate_snr",
                  args |-> [signal |-> signal, noisy |-> noisy],
                  res |-> calculate_snr(signal, noisy)]
    /\ pc' = "returned"
    /\ UNCHANGED <<th, pipe, hist, gen, run>>

FindPeakFrequency ==
    /\ pc = "idle"
    /\ \E fft_output \in Spectra, sample_rate \in PeakRates :
         call' = [op |-> "find_peak_frequency",
                  args |-> [fft_output |-> fft_output,
                            sample_rate |-> sample_rate],
                  res |-> find_peak_frequency(fft_output, sample_rate)]
    /\ pc' = "returned"
    /\ UNCHANGED <<th, pipe, hist, gen, run>>

\* the caller takes the result; nothing of the call is kept
Return ==
    /\ pc = "returned"
    /\ pc' = "idle"
    /\ call' = NoCall
    /\ UNCHANGED <<th, pipe, hist, gen, run>>

Next ==
    \/ GenerateTestSignal
    \/ ApplyLowpassFilter
    \/ ComputeFft
    \/ CalculateSnr
    \/ FindPeakFrequency
    \/ Return

Spec == Init /\ [][Next]_vars

---------------------------------------------------------------------------
(* compute_fft statement by statement, run by several threads              *)
(*                                                                         *)
(* The body holds no lock and no scope guard: each statement is a step of  *)
(* its own, and the call into FFTW's planner is entered and left in two    *)
(* steps so that two threads can be seen inside it together.               *)

MaxFftLen == 2

FftInputs == SeqsUpTo({ONE}, MaxFftLen)

\* the FFTW resources a thread holds
Held(t) ==
    {r \in {"in", "out", "plan"} :
        (r = "in" /\ th[t].in = "live") \/ (r = "out" /\ th[t].out = "live")
          \/ (r = "plan" /\ th[t].plan = "live")}

\* a crash ends the process: no thread takes another step
Running == \A t \in Threads : th[t].pc # "crashed"

\* compute_fft is entered: int N = input.size()
FftCall(t) ==
    /\ Running /\ th[t].pc = "idle"
    /\ \E input \in FftInputs :
         th' = [th EXCEPT ![t] = [IdleThread EXCEPT !.pc = "alloc_in",
                                                    !.input = input]]
    /\ UNCHANGED <<pc, call, pipe, hist, gen, run>>

\* double* in = fftw_alloc_real(N): the buffer, or NULL when there is no memory
FftAllocIn(t) ==
    /\ Running /\ th[t].pc = "alloc_in"
    /\ \E got \in {"live", "NULL"} :
         th' = [th EXCEPT ![t].in = got, ![t].pc = "alloc_out"]
    /\ UNCHANGED <<pc, call, pipe, hist, gen, run>>

\* fftw_complex* out = fftw_alloc_complex(N)
FftAllocOut(t) ==
    /\ Running /\ th[t].pc = "alloc_out"
    /\ \E got \in {"live", "NULL"} :
         th' = [th EXCEPT ![t].out = got, ![t].pc = "copy_in"]
    /\ UNCHANGED <<pc, call, pipe, hist, gen, run>>

\* for (i < N) in[i] = input[i]: a write through a NULL in ends the process
FftCopyIn(t) ==
    /\ Running /\ th[t].pc = "copy_in"
    /\ th' = [th EXCEPT ![t].pc =
                 IF Len(th[t].input) > 0 /\ th[t].in = "NULL"
                 THEN "crashed" ELSE "plan"]
    /\ UNCHANGED <<pc, call, pipe, hist, gen, run>>

\* fftw_plan_dft_r2c_1d(...) is called
FftPlanBegin(t) ==
    /\ Running /\ th[t].pc = "plan"
    /\ th' = [th EXCEPT ![t].pc = "planning"]
    /\ UNCHANGED <<pc, call, pipe, hist, gen, run>>

\* fftw_plan_dft_r2c_1d(...) returns the plan, or NULL
FftPlanEnd(t) ==
    /\ Running /\ th[t].pc = "planning"
    /\ th' = [th EXCEPT ![t].plan =
                          IF FftwPlan(Len(th[t].input)) = "NULL"
                          THEN "NULL" ELSE "live",
                        ![t].pc = "execute"]
    /\ UNCHANGED <<pc, call, pipe, hist, gen, run>>

\* fftw_execute(plan): undefined behaviour on a NULL plan; with a plan, the
\* bins are written through out, and a NULL out ends the process
FftExecute(t) ==
    /\ Running /\ th[t].pc = "execute"
    /\ IF th[t].plan = "NULL"
       THEN \E ub \in UbOutcomes :
               th' = [th EXCEPT ![t].ub = ub.kind,
                                ![t].spectrum = <<ub.bin>>,
                                ![t].pc = IF ub.kind = "crash"
                                          THEN "crashed" ELSE "result"]
       ELSE th' = [th EXCEPT ![t].pc = IF th[t].out = "NULL"
                                       THEN "crashed" ELSE "result"]
    /\ UNCHANGED <<pc, call, pipe, hist, gen, run>>

\* std::vector<std::complex<double>> result(N / 2 + 1), which throws
\* std::bad_alloc when there is no memory, and the loop that fills it from out
FftResult(t) ==
    /\ Running /\ th[t].pc = "result"
    /\ \/ th' = [th EXCEPT ![t].pc = "threw", ![t].err = "bad_alloc",
                           ![t].spectrum = <<>>]
       \/ th' = [th EXCEPT ![t].pc = "destroy_plan",
                           ![t].spectrum =
                              IF th[t].plan = "NULL"
                              THEN [i \in 1..ResultSize(Len(th[t].input)) |->
                                       th[t].spectrum[1]]
                              ELSE [i \in 1..ResultSize(Len(th[t].input)) |->
                                       FftwBin(th[t].input, i - 1)]]
    /\ UNCHANGED <<pc, call, pipe, hist, gen, run>>

\* fftw_destroy_plan(plan)
FftDestroyPlan(t) ==
    /\ Running /\ th[t].pc = "destroy_plan"
    /\ th' = [th EXCEPT ![t].plan = IF @ = "live" THEN "freed" ELSE @,
                        ![t].pc = "free_in"]
    /\ UNCHANGED <<pc, call, pipe, hist, gen, run>>

\* fftw_free(in)
FftFreeIn(t) ==
    /\ Running /\ th[t].pc = "free_in"
    /\ th' = [th EXCEPT ![t].in = IF @ = "live" THEN "freed" ELSE @,
                        ![t].pc = "free_out"]
    /\ UNCHANGED <<pc, call, pipe, hist, gen, run>>

\* fftw_free(out); return result
FftFreeOut(t) ==
    /\ Running /\ th[t].pc = "free_out"
    /\ th' = [th EXCEPT ![t].out = IF @ = "live" THEN "freed" ELSE @,
                        ![t].pc = "done"]
    /\ UNCHANGED <<pc, call, pipe, hist, gen, run>>

\* the thread's caller takes the result or catches the exception
FftReturn(t) ==
    /\ Running /\ th[t].pc \in {"done", "threw"}
    /\ th' = [th EXCEPT ![t] = IdleThread]
    /\ UNCHANGED <<pc, call, pipe, hist, gen, run>>

FftNext ==
    \E t \in Threads :
       \/ FftCall(t)
       \/ FftAllocIn(t)
       \/ FftAllocOut(t)
       \/ FftCopyIn(t)
       \/ FftPlanBegin(t)
       \/ FftPlanEnd(t)
       \/ FftExecute(t)
       \/ FftResult(t)
       \/ FftDestroyPlan(t)
       \/ FftFreeIn(t)
       \/ FftFreeOut(t)
       \/ FftReturn(t)

SpecFft == Init /\ [][FftNext]_vars

---------------------------------------------------------------------------
(* The typical usage: generate a signal, transform it, locate its peak     *)

MaxPipeFreq == 2

MaxPipeRate == 6

MaxPipeDurQ == 5

MaxNoisyLen == 2

\* generate_test_signal(10.0, 1000.0, 1.0, 0.0)
EndToEndArgs ==
    [frequency |-> 10, sample_rate |-> 1000, duration_q |-> DurDen,
     noise_amplitude |-> 0]

\* noise is drawn for the short signals only
PipeArgs ==
    {[frequency |-> f, sample_rate |-> sr, duration_q |-> dq,
      noise_amplitude |-> amp] :
        f \in 1..MaxPipeFreq, sr \in (0 - 1)..MaxPipeRate,
        dq \in 1..MaxPipeDurQ, amp \in {0}}
      \cup {[frequency |-> f, sample_rate |-> sr, duration_q |-> dq,
              noise_amplitude |-> ONE] :
               f \in 1..MaxPipeFreq,
               sr \in {r \in 1..MaxPipeRate : r <= MaxNoisyLen},
               dq \in {DurDen}}
      \cup {EndToEndArgs}

\* what the random source yields during one call
PipeDraws(a) ==
    LET n == NumDraws(a.sample_rate, a.duration_q)
    IN  IF a.noise_amplitude = 0 THEN {[i \in 1..n |-> ONE]}
                                 ELSE [1..n -> ZVals]

\* signal = sp.generate_test_signal(...)
PipeGenerate ==
    /\ pipe.stage = "start"
    /\ \E a \in PipeArgs :
         \E zs \in PipeDraws(a) :
            LET res == generate_test_signal(a.frequency, a.sample_rate,
                                            a.duration_q, a.noise_amplitude,
                                            zs)
            IN  pipe' = [stage |-> IF res.status = "ok" THEN "generated"
                                                         ELSE "failed",
                         args |-> a, signal |-> res.signal,
                         spectrum |-> <<>>, peak |-> NoCall]
    /\ UNCHANGED <<pc, call, th, hist, gen, run>>

\* fft_result = sp.compute_fft(signal)
PipeTransform ==
    /\ pipe.stage = "generated"
    /\ \E ub \in (IF FftwPlan(Len(pipe.signal)) = "NULL"
                  THEN UbOutcomes
                  ELSE {[kind |-> "crash", bin |-> Complex(0, 0)]}) :
         LET res == compute_fft(pipe.signal, ub)
         IN  pipe' = [pipe EXCEPT !.stage = IF res.status = "ok"
                                            THEN "transformed" ELSE "crashed",
                                  !.spectrum = res.spectrum]
    /\ UNCHANGED <<pc, call, th, hist, gen, run>>

\* peak_freq = sp.find_peak_frequency(fft_result, sample_rate), with the
\* rate the signal was generated at
PipeLocate ==
    /\ pipe.stage = "transformed"
    /\ pipe' = [pipe EXCEPT !.stage = "located",
                            !.peak = find_peak_frequency(
                                        pipe.spectrum, pipe.args.sample_rate)]
    /\ UNCHANGED <<pc, call, th, hist, gen, run>>

\* the caller starts over, unless the process has died
PipeRestart ==
    /\ pipe.stage \in {"located", "failed"}
    /\ pipe' = NoPipe
    /\ UNCHANGED <<pc, call, th, hist, gen, run>>

PipeNext ==
    \/ PipeGenerate
    \/ PipeTransform
    \/ PipeLocate
    \/ PipeRestart

SpecPipe == Init /\ [][PipeNext]_vars

---------------------------------------------------------------------------
(* Calls one after another in one process, each recorded with its result   *)

MaxHist == 3

HistSignals == SeqsUpTo({ONE}, 1)

HistSpectra == SeqsUpTo({Complex(ONE, 0)}, 1)

\* fftw_execute on a NULL plan may have ended the process
Alive == \A i \in 1..Len(hist) : hist[i].res.status # "crash"

Record(op, args, res) ==
    /\ hist' = Append(hist, [op |-> op, args |-> args, res |-> res])
    /\ UNCHANGED <<pc, call, th, pipe, gen, run>>

HistGenerate ==
    /\ Alive /\ Len(hist) < MaxHist
    /\ \E sr \in {0 - 1, 1} :
         \E zs \in [1..NumDraws(sr, DurDen) -> ZVals] :
            Record("generate_test_signal",
                   [frequency |-> 1, sample_rate |-> sr,
                    duration_q |-> DurDen, noise_amplitude |-> ONE],
                   generate_test_signal(1, sr, DurDen, ONE, zs))

HistFilter ==
    /\ Alive /\ Len(hist) < MaxHist
    /\ \E input \in HistSignals, num_taps \in {0 - 1, 1} :
         Record("apply_lowpass_filter",
                [input |-> input, cutoff_n |-> 1, num_taps |-> num_taps],
                apply_lowpass_filter(input, 1, num_taps))

HistFft ==
    /\ Alive /\ Len(hist) < MaxHist
    /\ \E input \in HistSignals, ub \in UbOutcomes :
         Record("compute_fft", [input |-> input], compute_fft(input, ub))

HistSnr ==
    /\ Alive /\ Len(hist) < MaxHist
    /\ \E signal \in HistSignals, noisy \in HistSignals :
         Record("calculate_snr", [signal |-> signal, noisy |-> noisy],
                calculate_snr(signal, noisy))

HistPeak ==
    /\ Alive /\ Len(hist) < MaxHist
    /\ \E fft_output \in HistSpectra, sample_rate \in {8} :
         Record("find_peak_frequency",
                [fft_output |-> fft_output, sample_rate |-> sample_rate],
                find_peak_frequency(fft_output, sample_rate))

HistNext ==
    \/ HistGenerate
    \/ HistFilter
    \/ HistFft
    \/ HistSnr
    \/ HistPeak

SpecHistory == Init /\ [][HistNext]_vars

---------------------------------------------------------------------------
(* generate_test_signal draw by draw, run by several threads               *)

MaxGenRate == 2

MaxSeed == 2

\* what std::random_device can return
Seeds == 1..MaxSeed

\* the standard normal value that draw number pos (from 0) of a generator
\* seeded with seed delivers: a function of the generator's state alone
Mt(seed, pos) == IF (seed + pos) % 2 = 0 THEN ONE ELSE 0 - ONE

\* the call is entered with noise_amplitude 1.0 and duration 1.0:
\* int num_samples = static_cast<int>(sample_rate * duration)
GenCall(t) ==
    /\ gen.call[t].pc = "idle"
    /\ \E f \in Freqs, sr \in 1..MaxGenRate :
         gen' = [gen EXCEPT !.call[t] =
                    [pc |-> "seed", frequency |-> f, sample_rate |-> sr,
                     num_samples |-> NumSamples(sr, DurDen),
                     seed |-> 0, signal |-> <<>>]]
    /\ UNCHANGED <<pc, call, th, pipe, hist, run>>

\* std::random_device rd; std::mt19937 gen(rd())
GenSeed(t) ==
    /\ gen.call[t].pc = "seed"
    /\ \E seed \in Seeds :
         gen' = [gen EXCEPT !.call[t].pc = "loop",
                            !.call[t].seed = seed,
                            !.rng[GeneratorOf(t)] = [seed |-> seed, pos |-> 0],
                            !.used = @ \cup {<<t, GeneratorOf(t)>>}]
    /\ UNCHANGED <<pc, call, th, pipe, hist, run>>

\* one pass of the loop: signal[i] = sine_value + noise_dist(gen)
GenSample(t) ==
    /\ gen.call[t].pc = "loop"
    /\ Len(gen.call[t].signal) < gen.call[t].num_samples
    /\ LET c == gen.call[t]
           g == gen.rng[GeneratorOf(t)]
           i == Len(c.signal)
       IN  gen' = [gen EXCEPT
                     !.call[t].signal =
                        Append(@, SinTurn(c.frequency * i, c.sample_rate)
                                    + NormalDist(0, ONE, Mt(g.seed, g.pos))),
                     !.rng[GeneratorOf(t)].pos = @ + 1,
                     !.used = @ \cup {<<t, GeneratorOf(t)>>}]
    /\ UNCHANGED <<pc, call, th, pipe, hist, run>>

\* the loop ends: i = num_samples
GenFinish(t) ==
    /\ gen.call[t].pc = "loop"
    /\ Len(gen.call[t].signal) = gen.call[t].num_samples
    /\ gen' = [gen EXCEPT !.call[t].pc = "done"]
    /\ UNCHANGED <<pc, call, th, pipe, hist, run>>

\* return signal
GenReturn(t) ==
    /\ gen.call[t].pc = "done"
    /\ gen' = [gen EXCEPT !.call[t] = IdleGen]
    /\ UNCHANGED <<pc, call, th, pipe, hist, run>>

GenNext ==
    \E t \in Threads :
       \/ GenCall(t)
       \/ GenSeed(t)
       \/ GenSample(t)
       \/ GenFinish(t)
       \/ GenReturn(t)

SpecGen == Init /\ [][GenNext]_vars

---------------------------------------------------------------------------
(* One call followed through its loops, one iteration per step             *)

MaxRunLen == 3

MaxRunTaps == 3

\* a loop that still has n passes to make
Loop(n) == [kind |-> "loop", n |-> n]

\* plan construction and fftw_execute for N samples
Execute(N) == [kind |-> "execute", n |-> N]

\* a call that is running: the work it still has to do, in order
Underway(op, work) == [pc |-> "running", op |-> op, work |-> work]

\* a call that failed before its first loop
Threw(op) == [pc |-> "threw", op |-> op, work |-> <<>>]

\* generate_test_signal: the sample loop, after a vector constructor that
\* throws for a negative num_samples
RunGenerate ==
    /\ run.pc = "idle"
    /\ \E num_samples \in (0 - 1)..MaxRunLen :
         run' = IF num_samples < 0 THEN Threw("generate_test_signal")
                ELSE Underway("generate_test_signal", <<Loop(num_samples)>>)
    /\ UNCHANGED <<pc, call, th, pipe, hist, gen>>

\* apply_lowpass_filter: the design loop, the two normalization loops and
\* the convolution, whose inner loop body runs input_size * num_taps times
RunFilter ==
    /\ run.pc = "idle"
    /\ \E input_size \in 0..MaxRunLen, num_taps \in (0 - 1)..MaxRunTaps :
         run' = IF num_taps < 0 THEN Threw("apply_lowpass_filter")
                ELSE Underway("apply_lowpass_filter",
                              <<Loop(num_taps), Loop(num_taps), Loop(num_taps),
                                Loop(input_size * num_taps)>>)
    /\ UNCHANGED <<pc, call, th, pipe, hist, gen>>

\* compute_fft: the copy loop, the plan and its execution, the result loop
RunFft ==
    /\ run.pc = "idle"
    /\ \E N \in 0..MaxRunLen :
         run' = Underway("compute_fft",
                         <<Loop(N), Execute(N), Loop(ResultSize(N))>>)
    /\ UNCHANGED <<pc, call, th, pipe, hist, gen>>

\* calculate_snr: the size test, then the two power loops
RunSnr ==
    /\ run.pc = "idle"
    /\ \E size \in 0..MaxRunLen, noisy_size \in 0..MaxRunLen :
         run' = IF size # noisy_size THEN Threw("calculate_snr")
                ELSE Underway("calculate_snr", <<Loop(size), Loop(size)>>)
    /\ UNCHANGED <<pc, call, th, pipe, hist, gen>>

\* find_peak_frequency: the test for an empty spectrum, then the scan
RunPeak ==
    /\ run.pc = "idle"
    /\ \E size \in 0..MaxRunLen :
         run' = Underway("find_peak_frequency",
                         IF size = 0 THEN <<>> ELSE <<Loop(size)>>)
    /\ UNCHANGED <<pc, call, th, pipe, hist, gen>>

\* one pass of the loop the call is in
RunPass ==
    /\ run.pc = "running" /\ run.work # <<>>
    /\ Head(run.work).kind = "loop" /\ Head(run.work).n > 0
    /\ run' = [run EXCEPT !.work = <<Loop(Head(run.work).n - 1)>>
                                       \o Tail(run.work)]
    /\ UNCHANGED <<pc, call, th, pipe, hist, gen>>

\* the loop condition fails and the loop is left
RunLoopExit ==
    /\ run.pc = "running" /\ run.work # <<>>
    /\ Head(run.work).kind = "loop" /\ Head(run.work).n = 0
    /\ run' = [run EXCEPT !.work = Tail(run.work)]
    /\ UNCHANGED <<pc, call, th, pipe, hist, gen>>

\* fftw_plan_dft_r2c_1d and fftw_execute: a transform of bounded work, or,
\* on the NULL plan of N = 0, undefined behaviour
RunExecute ==
    /\ run.pc = "running" /\ run.work # <<>>
    /\ Head(run.work).kind = "execute"
    /\ IF FftwPlan(Head(run.work).n) = "NULL"
       THEN \E ub \in UbOutcomes :
               run' = IF ub.kind = "crash"
                      THEN [run EXCEPT !.pc = "crashed"]
                      ELSE [run EXCEPT !.work = Tail(run.work)]
       ELSE run' = [run EXCEPT !.work = Tail(run.work)]
    /\ UNCHANGED <<pc, call, th, pipe, hist, gen>>

\* no work is left: the call returns its result
RunReturn ==
    /\ run.pc = "running" /\ run.work = <<>>
    /\ run' = [run EXCEPT !.pc = "returned"]
    /\ UNCHANGED <<pc, call, th, pipe, hist, gen>>

\* the caller goes on to its next call
RunAgain ==
    /\ run.pc \in {"returned", "threw"}
    /\ run' = NoRun
    /\ UNCHANGED <<pc, call, th, pipe, hist, gen>>

\* the steps of a call that is under way
RunProgress ==
    \/ RunPass
    \/ RunLoopExit
    \/ RunExecute
    \/ RunReturn

RunNext ==
    \/ RunGenerate
    \/ RunFilter
    \/ RunFft
    \/ RunSnr
    \/ RunPeak
    \/ RunPass
    \/ RunLoopExit
    \/ RunExecute
    \/ RunReturn
    \/ RunAgain

\* a call that is under way keeps being executed
SpecRun == Init /\ [][RunNext]_vars /\ WF_vars(RunProgress)

---------------------------------------------------------------------------
(* Properties                                                              *)

Range(s) == {s[i] : i \in DOMAIN s}

Returned(op) == pc = "returned" /\ call.op = op

\* C1: apply_lowpass_filter with num_taps >= 1 returns, for every input
\* (the empty one too) and every cutoff, an output as long as the input.
C1_FilterKeepsLength ==
    (Returned("apply_lowpass_filter") /\ call.args.num_taps >= 1)
       => /\ call.res.status = "ok"
          /\ Len(call.res.output) = Len(call.args.input)

\* a filter longer than its non-empty input has run
C1_Witness ==
    /\ Returned("apply_lowpass_filter")
    /\ Len(call.args.input) = 2
    /\ call.args.num_taps = 5
    /\ Len(call.res.output) = 2

\* C2: compute_fft of N >= 1 samples returns exactly floor(N/2) + 1 bins.
C2_FftLength ==
    (Returned("compute_fft") /\ Len(call.args.input) >= 1)
       => /\ call.res.status = "ok"
          /\ 2 * (Len(call.res.spectrum) - 1) <= Len(call.args.input)
          /\ Len(call.args.input) < 2 * Len(call.res.spectrum)

\* an odd-length input has been transformed
C2_Witness ==
    /\ Returned("compute_fft")
    /\ Len(call.args.input) = 3
    /\ Len(call.res.spectrum) = 2

\* C3: compute_fft of the empty input returns a spectrum of length 0.
C3_EmptyFftIsEmpty ==
    (Returned("compute_fft") /\ Len(call.args.input) = 0)
       => /\ call.res.status = "ok"
          /\ Len(call.res.spectrum) = 0

\* C4: calculate_snr of two sequences of different lengths fails with
\* invalid_argument before any sample is read or any power computed, and
\* produces no value.
C4_SnrMismatchFailsFirst ==
    (Returned("calculate_snr")
        /\ Len(call.args.signal) # Len(call.args.noisy))
       => /\ call.res.status = "throw"
          /\ call.res.err = "invalid_argument"
          /\ call.res.value.kind = "none"
          /\ call.res.path = <<"size_check">>

\* a call with a longer reference than degraded sequence has failed
C4_Witness ==
    /\ Returned("calculate_snr")
    /\ Len(call.args.signal) = 2
    /\ Len(call.args.noisy) = 1
    /\ call.res.status = "throw"

\* C5: when noisy[i] = signal[i] for every i (zero noise power) calculate_snr
\* returns the sentinel 100 and does not divide signal_power by noise_power.
C5_ZeroNoiseSentinel ==
    (Returned("calculate_snr") /\ call.args.noisy = call.args.signal)
       => /\ call.res.status = "ok"
          /\ call.res.value
                = [kind |-> "const", num |-> <<0, 0, 100>>, den |-> <<0, 0, 1>>]
          /\ "divide" \notin Range(call.res.path)

\* calculate_snr(x, x) has returned for a non-empty x of non-zero power
C5_Witness ==
    /\ Returned("calculate_snr")
    /\ call.args.noisy = call.args.signal
    /\ Len(call.args.signal) = 2
    /\ call.args.signal[1] # 0
    /\ call.res.status = "ok"

\* C6: find_peak_frequency of an empty spectrum returns 0.0 for every
\* sample_rate, without failing and without the bin-to-Hz division.
C6_EmptySpectrumZero ==
    (Returned("find_peak_frequency") /\ call.args.fft_output = <<>>)
       => /\ call.res.status = "ok"
          /\ call.res.frequency = [cls |-> "fin", v |-> 0]
          /\ "divide" \notin Range(call.res.path)

\* an empty spectrum has been searched at a non-zero sample rate
C6_Witness ==
    /\ Returned("find_peak_frequency")
    /\ call.args.fft_output = <<>>
    /\ call.args.sample_rate = 1000
    /\ call.res.status = "ok"

\* C7: for a non-empty spectrum the selected bin has the maximum magnitude
\* of all bins and is the lowest index that has it.
C7_PeakIsFirstMaximum ==
    (Returned("find_peak_frequency") /\ call.args.fft_output # <<>>)
       => LET s == call.args.fft_output
              b == call.res.max_bin + 1
          IN  /\ b \in 1..Len(s)
              /\ \A k \in 1..Len(s) :
                    ~WideLess(MagnitudeSq(s[b]), MagnitudeSq(s[k]))
              /\ \A k \in 1..(b - 1) :
                    WideLess(MagnitudeSq(s[k]), MagnitudeSq(s[b]))

\* a spectrum whose maximum is shared by two bins, neither of them bin 0,
\* has been searched
C7_Witness ==
    /\ Returned("find_peak_frequency")
    /\ Len(call.args.fft_output) = 3
    /\ MagnitudeSq(call.args.fft_output[1]) = <<0, 0, 1>>
    /\ MagnitudeSq(call.args.fft_output[2]) = <<0, 0, 25>>
    /\ MagnitudeSq(call.args.fft_output[3]) = <<0, 0, 25>>
    /\ call.args.fft_output[2] # call.args.fft_output[3]
    /\ call.res.max_bin = 1

\* sample_rate * duration rounded to the nearest integer (den > 0, num >= 0)
RoundNearest(num, den) == (2 * num + den) \div (2 * den)

\* C8 as stated: with sample_rate > 0 and duration >= 0 the Signal has
\* round(sample_rate * duration) samples.
C8_LengthIsRounded ==
    (Returned("generate_test_signal")
        /\ call.args.sample_rate > 0 /\ call.args.duration_q >= 0)
       => /\ call.res.status = "ok"
          /\ Len(call.res.signal)
               = RoundNearest(call.args.sample_rate * call.args.duration_q,
                              DurDen)

\* C8 amended: with sample_rate > 0 and duration >= 0 the Signal has
\* sample_rate * duration truncated to an integer samples: the length n
\* satisfies n <= sample_rate * duration < n + 1.
C8_LengthIsTruncated ==
    (Returned("generate_test_signal")
        /\ call.args.sample_rate > 0 /\ call.args.duration_q >= 0)
       => /\ call.res.status = "ok"
          /\ Len(call.res.signal) * DurDen
               <= call.args.sample_rate * call.args.duration_q
          /\ call.args.sample_rate * call.args.duration_q
               < (Len(call.res.signal) + 1) * DurDen

\* a signal of one sample has been generated for a product of 1.5
C8_Witness ==
    /\ Returned("generate_test_signal")
    /\ call.args.sample_rate = 3
    /\ call.args.duration_q = 2
    /\ Len(call.res.signal) = 1

\* C9: with noise_amplitude = 0 the signal is a function of frequency,
\* sample_rate and duration alone: sample i is sin(2*pi*frequency*i/
\* sample_rate), whatever the random source yields, so any two calls with
\* the same arguments return the same sequence.
C9_ZeroNoiseIsPureSine ==
    (Returned("generate_test_signal")
        /\ call.args.noise_amplitude = 0 /\ call.res.status = "ok")
       => \A i \in 1..Len(call.res.signal) :
             call.res.signal[i]
               = SinTurn(call.args.frequency * (i - 1), call.args.sample_rate)

\* a noiseless signal of three samples, not all zero, has been generated
\* from draws that differ
C9_Witness ==
    /\ Returned("generate_test_signal")
    /\ call.args.noise_amplitude = 0
    /\ Len(call.res.signal) = 3
    /\ call.draws[1] # call.draws[2]
    /\ call.res.signal[2] # 0

\* C10: generate_test_signal fails exactly when sample_rate or duration is
\* negative.
C10_FailsIffNegative ==
    Returned("generate_test_signal")
       => ((call.res.status # "ok")
             <=> (call.args.sample_rate < 0 \/ call.args.duration_q < 0))

\* C11: apply_lowpass_filter with num_taps <= 0 fails with an
\* invalid-argument error and returns no output, for every input and cutoff.
C11_NonPositiveTapsFail ==
    (Returned("apply_lowpass_filter") /\ call.args.num_taps <= 0)
       => /\ call.res.status = "throw"
          /\ call.res.err = "invalid_argument"
          /\ call.res.output = <<>>

\* the sum of the finite values of a sequence of doubles
FinSum(fs) == SumSeq([k \in 1..Len(fs) |-> fs[k].v])

\* C12: for a cutoff in (0,1) and an odd num_taps >= 3 the sum of the
\* designed coefficients is not zero, every coefficient is its designed
\* value divided by that one sum, and the normalized coefficients sum to 1
\* (within one unit of the last place per coefficient).
C12_UnityGain ==
    (Returned("apply_lowpass_filter")
        /\ call.args.cutoff_n > 0 /\ call.args.cutoff_n < CutDen
        /\ call.args.num_taps >= 3 /\ call.args.num_taps % 2 = 1)
       => LET raw    == call.res.raw
              coeffs == call.res.coeffs
              sum    == SumSeq(raw)
          IN  /\ sum # 0
              /\ Len(coeffs) = call.args.num_taps
              /\ \A k \in 1..Len(coeffs) :
                    /\ coeffs[k].cls = "fin"
                    /\ Abs(coeffs[k].v * sum - raw[k] * ONE) < Abs(sum)
              /\ Abs(FinSum(coeffs) - ONE) <= call.args.num_taps

\* a five-tap filter with cutoff 0.25 and two non-zero side coefficients
\* has been designed and normalized
C12_Witness ==
    /\ Returned("apply_lowpass_filter")
    /\ call.args.cutoff_n * 4 = CutDen
    /\ call.args.num_taps = 5
    /\ call.res.raw[2] # 0
    /\ call.res.coeffs[2].v # call.res.raw[2]

\* the thread has left compute_fft, by return or by exception
Exited(t) == th[t].pc \in {"done", "threw"}

\* C13: every FFTW resource a compute_fft call acquired (in, out, the plan)
\* has been released when the call exits, on the exception path too.
C13_ReleasedOnExit == \A t \in Threads : Exited(t) => Held(t) = {}

\* C14: no two concurrent compute_fft calls are inside plan construction
\* at the same time.
C14_PlanningSerialized ==
    \A t1 \in Threads, t2 \in Threads :
       (th[t1].pc = "planning" /\ th[t2].pc = "planning") => t1 = t2

\* the pipeline has been run on generate_test_signal(10.0, 1000.0, 1.0, 0.0)
EndToEndRun(stages) == pipe.stage \in stages /\ pipe.args = EndToEndArgs

\* C15: generate_test_signal(10.0, 1000.0, 1.0, 0.0) returns 1000 samples,
\* compute_fft of them returns 501 bins, and find_peak_frequency of those at
\* sample_rate 1000.0 selects bin 10 and returns 10 * 1000 / 1000, a value
\* within 1.0 Hz of 10.0.
C15_EndToEnd ==
    /\ ~EndToEndRun({"failed", "crashed"})
    /\ EndToEndRun({"generated", "transformed", "located"})
          => Len(pipe.signal) = 1000
    /\ EndToEndRun({"transformed", "located"}) => Len(pipe.spectrum) = 501
    /\ EndToEndRun({"located"})
          => /\ pipe.peak.max_bin = 10
             /\ pipe.peak.frequency = FDiv(10 * 1000, 1000)
             /\ pipe.peak.frequency.cls = "fin"
             /\ Abs(pipe.peak.frequency.v - 10 * ONE) <= ONE

\* the peak of the 10 Hz signal sampled at 1000 Hz for one second has been
\* located
C15_Witness ==
    /\ EndToEndRun({"located"})
    /\ Len(pipe.spectrum) = 501
    /\ pipe.peak.max_bin = 10

\* C17: for a spectrum compute_fft produced from N >= 2 samples, even or
\* odd, the divisor (len(spectrum) - 1) * 2 equals N and the peak bin is
\* mapped to peak_bin * sample_rate / N.
C17_DivisorIsInputLength ==
    (pipe.stage = "located" /\ Len(pipe.signal) >= 2)
       => /\ TotalBins(Len(pipe.spectrum)) = Len(pipe.signal)
          /\ pipe.peak.frequency
                = FDiv(pipe.peak.max_bin * pipe.args.sample_rate,
                       Len(pipe.signal))

PaddedTerm(input, coeffs, n, j) ==
    LET m == n - (Len(coeffs) \div 2) + j
    IN  IF m \in 0..(Len(input) - 1) THEN FMul(input[m + 1], coeffs[j + 1])
                                      ELSE Fin(0)

\* the sum of the terms 0 .. j-1 of output sample n
RECURSIVE PaddedSum(_, _, _, _)
PaddedSum(input, coeffs, n, j) ==
    IF j = 0 THEN Fin(0)
    ELSE FAdd(PaddedSum(input, coeffs, n, j - 1),
              PaddedTerm(input, coeffs, n, j - 1))

\* C18: for every output index n in [0, len(input)), output[n] is the sum
\* over j in [0, num_taps) of coeff[j] * input[n - center + j] with
\* center = num_taps / 2, a term whose input index is outside
\* [0, len(input)) contributing zero, and no input element outside that
\* range is read.
C18_CenteredZeroPadded ==
    (Returned("apply_lowpass_filter") /\ call.res.status = "ok")
       => /\ \A n \in 0..(Len(call.args.input) - 1) :
                call.res.output[n + 1]
                  = PaddedSum(call.args.input, call.res.coeffs, n,
                              call.args.num_taps)
          /\ call.res.reads \subseteq 0..(Len(call.args.input) - 1)

\* three samples have been filtered with three positive taps: the first
\* and the last output sample each lose one term to the padding, and the
\* middle one, between two non-zero samples, is the smaller
C18_Witness ==
    /\ Returned("apply_lowpass_filter")
    /\ call.args.input = <<ONE, 0, ONE>>
    /\ call.args.num_taps = 3
    /\ \A k \in 1..3 :
          call.res.coeffs[k].cls = "fin" /\ call.res.coeffs[k].v > 0
    /\ call.res.reads = {0, 1, 2}
    /\ call.res.output[1].v > call.res.output[2].v
    /\ call.res.output[2].v > 0

\* h[0] * x[n] + ... + h[k-1] * x[n-(k-1)], a sample before the start of
\* the input counting as zero
RECURSIVE CausalSum(_, _, _, _)
CausalSum(x, h, n, k) ==
    IF k = 0 THEN Fin(0)
    ELSE FAdd(CausalSum(x, h, n, k - 1),
              IF n - (k - 1) >= 0 THEN FMul(x[n - (k - 1) + 1], h[k])
                                  ELSE Fin(0))

\* C19: the filter output follows the documented formula y[n] = sum over
\* k = 0..M-1 of h[k] * x[n - k] with M = num_taps: output sample n
\* combines the input samples n, n-1, ..., n-(M-1).
C19_DocumentedConvolution ==
    (Returned("apply_lowpass_filter") /\ call.res.status = "ok")
       => \A n \in 0..(Len(call.args.input) - 1) :
             call.res.output[n + 1]
               = CausalSum(call.args.input, call.res.coeffs, n,
                           call.args.num_taps)

\* C20: for every num_taps >= 1, odd or even, the designed coefficients are
\* symmetric about center = num_taps / 2: coeff[center + d] equals
\* coeff[center - d] for every d for which both indices are in
\* [0, num_taps).
C20_SymmetricAboutCenter ==
    (Returned("apply_lowpass_filter") /\ call.args.num_taps >= 1)
       => LET center == call.args.num_taps \div 2
          IN  \A d \in 0..call.args.num_taps :
                 (center + d < call.args.num_taps /\ center - d >= 0)
                    => /\ call.res.raw[center + d + 1]
                            = call.res.raw[center - d + 1]
                       /\ call.res.coeffs[center + d + 1]
                            = call.res.coeffs[center - d + 1]

\* the taps whose input index n - center + j lies inside an input of L samples
TapsInRange(n, num_taps, L) ==
    {j \in 0..(num_taps - 1) : n - (num_taps \div 2) + j \in 0..(L - 1)}

\* the sum of the coefficients of the taps in js
TapSum(coeffs, js) ==
    SumSeq([k \in 1..Len(coeffs) |-> IF k - 1 \in js THEN coeffs[k].v ELSE 0])

\* C21: filtering L >= num_taps ones with an odd num_taps >= 3 (cutoff in
\* (0,1)) gives the full coefficient sum, 1, at every interior index
\* center <= n < L - center, and at each of the first and last center
\* indices the sum of only the coefficients whose input index is in range,
\* a sum over a proper part of the coefficients.
C21_BoundaryArtifact ==
    (Returned("apply_lowpass_filter")
        /\ call.args.cutoff_n > 0 /\ call.args.cutoff_n < CutDen
        /\ call.args.num_taps >= 3 /\ call.args.num_taps % 2 = 1
        /\ Len(call.args.input) >= call.args.num_taps
        /\ \A i \in 1..Len(call.args.input) : call.args.input[i] = ONE)
       => LET L        == Len(call.args.input)
              num_taps == call.args.num_taps
              center   == num_taps \div 2
              coeffs   == call.res.coeffs
          IN  \A n \in 0..(L - 1) :
                 LET used == TapsInRange(n, num_taps, L)
                 IN  /\ call.res.output[n + 1] = Fin(TapSum(coeffs, used))
                     /\ (center <= n /\ n < L - center)
                           => /\ used = 0..(num_taps - 1)
                              /\ Abs(call.res.output[n + 1].v - ONE) <= num_taps
                     /\ (n < center \/ n >= L - center)
                           => /\ used # 0..(num_taps - 1)
                              /\ used # {}

\* five ones have been filtered with three taps of cutoff 0.25: the border
\* samples come out lower than the interior ones
C21_Witness ==
    /\ Returned("apply_lowpass_filter")
    /\ call.args.input = <<ONE, ONE, ONE, ONE, ONE>>
    /\ call.args.num_taps = 3
    /\ call.args.cutoff_n * 4 = CutDen
    /\ call.res.output[1].v < call.res.output[2].v
    /\ call.res.output[5].v < call.res.output[4].v
    /\ call.res.output[3] = call.res.output[2]

\* C22: a compute_fft call on an empty input takes no step in the transform
\* library: from its entry it reaches its return with no buffer allocated,
\* no plan constructed and no plan executed.
C22_EmptyInputSkipsFftw ==
    \A t \in Threads :
       (th[t].pc # "idle" /\ Len(th[t].input) = 0)
          => /\ th[t].pc \in {"alloc_in", "done"}
             /\ th[t].in = "none"
             /\ th[t].out = "none"
             /\ th[t].plan = "none"
             /\ th[t].ub = "none"

\* C23 as stated: with num_taps = 1 the window expression, whose
\* denominator num_taps - 1 is 0, is evaluated for some tap.
C23_SingleTapDividesByZero ==
    (Returned("apply_lowpass_filter") /\ call.args.num_taps = 1)
       => call.res.windowed # {}

\* C23 amended: with num_taps = 1 the window expression is evaluated for no
\* tap: the only tap is the centre tap, its coefficient before
\* normalization is 2 * cutoff_freq, and no call evaluates the window
\* with the denominator num_taps - 1 equal to 0.
C23_SingleTapSkipsWindow ==
    Returned("apply_lowpass_filter")
       => /\ call.res.windowed # {} => call.args.num_taps - 1 # 0
          /\ call.args.num_taps = 1
                => /\ call.res.status = "ok"
                   /\ call.res.windowed = {}
                   /\ call.res.raw
                         = <<TruncDiv(2 * call.args.cutoff_n * ONE, CutDen)>>

\* a filter of one tap with cutoff 0.25 has been designed and applied to
\* two samples
C23_Witness ==
    /\ Returned("apply_lowpass_filter")
    /\ call.args.num_taps = 1
    /\ call.args.cutoff_n * 4 = CutDen
    /\ Len(call.args.input) = 2
    /\ call.res.raw = <<ONE \div 2>>
    /\ call.res.coeffs = <<Fin(ONE)>>

\* C24: for a cutoff outside the open interval (0,1), 0, 1 and negative
\* values included, and num_taps >= 1, apply_lowpass_filter does not fail,
\* the sum of the coefficients before normalization is not zero, and every
\* normalized coefficient is a finite number.
C24_OutsideCutoffStillValid ==
    (Returned("apply_lowpass_filter")
        /\ (call.args.cutoff_n <= 0 \/ call.args.cutoff_n >= CutDen)
        /\ call.args.num_taps >= 1)
       => /\ call.res.status = "ok"
          /\ SumSeq(call.res.raw) # 0
          /\ \A k \in 1..Len(call.res.coeffs) : call.res.coeffs[k].cls = "fin"

\* C25: for N >= 1, result bin i of compute_fft, for every i in
\* [0, floor(N/2)], is bin i of the unnormalized forward transform of the
\* input samples in their order, neither scaled nor reordered; bin 0 is the
\* plain sum of the input samples.
C25_UnnormalizedForward ==
    (Returned("compute_fft") /\ Len(call.args.input) >= 1)
       => /\ call.res.status = "ok"
          /\ \A i \in 0..(Len(call.args.input) \div 2) :
                call.res.spectrum[i + 1] = FftwBin(call.args.input, i)
          /\ call.res.spectrum[1] = Complex(SumSeq(call.args.input), 0)

\* three samples that sum to 2 and are not symmetric in time have been
\* transformed
C25_Witness ==
    /\ Returned("compute_fft")
    /\ call.args.input = <<ONE, ONE, 0>>
    /\ call.res.spectrum[1] = Complex(2 * ONE, 0)
    /\ call.res.spectrum[2].im # 0

\* C26: concurrent generate_test_signal calls share no generator state: in
\* every interleaving no generator is accessed by two threads, and every
\* sample of a call is the sine plus the draw its own generator delivers
\* from its own seed at that sample's position, however many draws the
\* other call has made.
C26_OwnGenerator ==
    /\ \A a \in gen.used, b \in gen.used : a[2] = b[2] => a[1] = b[1]
    /\ \A t \in Threads :
          LET c == gen.call[t]
          IN  c.pc \in {"loop", "done"}
                 => \A k \in 1..Len(c.signal) :
                       c.signal[k]
                         = SinTurn(c.frequency * (k - 1), c.sample_rate)
                             + NormalDist(0, ONE, Mt(c.seed, k - 1))

\* two calls are inside their loops together, a different number of draws
\* behind them
C26_Witness ==
    /\ gen.call[1].pc = "loop" /\ gen.call[2].pc = "loop"
    /\ gen.call[1].num_samples = 2 /\ gen.call[2].num_samples = 2
    /\ Len(gen.call[1].signal) = 2
    /\ Len(gen.call[2].signal) = 1
    /\ gen.used = {<<1, 1>>, <<2, 2>>}

\* C27: every call of generate_test_signal, apply_lowpass_filter,
\* compute_fft, calculate_snr and find_peak_frequency terminates: a call
\* that is under way eventually returns a result or raises an error.
C27_EveryCallTerminates ==
    (run.pc = "running") ~> (run.pc \in {"returned", "threw"})

\* C28: for every non-empty spectrum, a spectrum of one bin included, the
\* divisor (len(spectrum) - 1) * 2 is not zero and the frequency returned
\* is a finite number.
C28_DivisorNonZero ==
    (Returned("find_peak_frequency") /\ call.args.fft_output # <<>>)
       => /\ TotalBins(Len(call.args.fft_output)) # 0
          /\ call.res.frequency.cls = "fin"

\* 100 times a power
WideTimes100(x) ==
    LET l == x[3] * 100
        m == x[2] * 100 + l \div ONE
    IN  <<x[1] * 100 + m \div ONE, m % ONE, l % ONE>>

\* 10 * log10(num / den) is greater than 100, that is num > 10^10 * den:
\* the part of num above its two low digits (a multiple of 10^8) is compared
\* with 100 * den
Above100dB(value) ==
    /\ value.kind = "10log10"
    /\ LET high == Wide(value.num[1])
           cap  == WideTimes100(value.den)
       IN  \/ WideLess(cap, high)
           \/ cap = high /\ (value.num[2] > 0 \/ value.num[3] > 0)

\* C29: the value calculate_snr returns for inputs of equal length is never
\* greater than 100: whenever noise_power > 0, 10 * log10(signal_power /
\* noise_power) is at most 100.
C29_SentinelIsCap ==
    (Returned("calculate_snr") /\ call.res.status = "ok")
       => ~Above100dB(call.res.value)

\* the statements of compute_fft a thread has completed, by its position
PastCopy(t) ==
    th[t].pc \in {"plan", "planning", "execute", "result", "destroy_plan",
                  "free_in", "free_out", "done"}

PastExecute(t) ==
    th[t].pc \in {"result", "destroy_plan", "free_in", "free_out", "done"}

PastResultLoop(t) ==
    th[t].pc \in {"destroy_plan", "free_in", "free_out", "done"}

\* C30: in compute_fft, for every N >= 0, every access to the FFTW buffers
\* is inside the allocation: the copy loop's writes to in, the bins an
\* executed plan writes to out, and the result loop's reads of out all use
\* indices below N.
C30_BufferAccessesInBounds ==
    \A t \in Threads :
       LET N      == Len(th[t].input)
           inside == 0..(BufferSize(N) - 1)
       IN  /\ PastCopy(t) => CopyWrites(N) \subseteq inside
           /\ (PastExecute(t) /\ th[t].plan # "NULL")
                 => ExecuteWrites(N) \subseteq inside
           /\ PastResultLoop(t) => ResultReads(N) \subseteq inside

===========================================================================
